---- MODULE Spec2Model ----
(***************************************************************************)
(* hecs column batches (src/src/batch.rs).                                 *)
(*                                                                         *)
(* A ColumnBatchType collects component types in a BinaryHeap<TypeInfo>;   *)
(* into_batch sorts the heap and builds an Archetype from the sorted       *)
(* vector.  A ColumnBatch forwards reserve / set_len to its archetype and  *)
(* hands out one slice per component type, as long as the capacity.        *)
(*                                                                         *)
(* Archetype and TypeInfo live in archetype.rs, which is outside           *)
(* src/src/batch.rs: their operations are modelled from the storage-layer  *)
(* contract of spec.md (section 3 and section 6).                          *)
(***************************************************************************)
EXTENDS Integers, Sequences, FiniteSets, TLC

\* ---------------------------------------------------------------- bounds
NumTypes == 3      \* component types are identified by 1..NumTypes
MaxAdds == 3       \* add calls on one ColumnBatchType
MaxCap == 2        \* largest capacity an archetype is grown to
MaxCols == 2       \* columns of a batch whose slots a caller writes (SpecData)

TypeIds == 1..NumTypes
Batches == {1, 2}
SlotIds == 1..MaxCap        \* slot i of the code is slot i+1 here
MaxLen == MaxCap + 1        \* set_len arguments run past the capacity

\* The value a caller writes to slot i of the column of T.  The code never
\* looks inside a MaybeUninit<T>, so one value per (T, i) tells every slot apart.
Val(T, i) == [t |-> T, i |-> i]
Vals == {Val(T, i) : T \in TypeIds, i \in SlotIds}
Uninit == [t |-> 0, i |-> 0]          \* a MaybeUninit slot nobody wrote

VARIABLES
    types,       \* types[b]: the BinaryHeap<TypeInfo> of ColumnBatchType b (its vector)
    pc,          \* pc[b]: "type" while b is a ColumnBatchType, "batch" once it is a ColumnBatch
    archetype,   \* archetype[b]: the Archetype owned by ColumnBatch b
    ret,         \* what the last storage_for returned, while the caller may still use it
    last,        \* the last call: its name, its receiver, whether it grew the capacity
    registered,  \* registered[b][T]: how many times add::<T>() was called on b
    wrote,       \* wrote[b][T][i]: what the caller last wrote to slot i of storage_for::<T>()
    hist,        \* hist[b]: "type", then fresh -> reserved -> committed -> shrunk, or "other"
    order        \* order[b]: the add calls made on b, in call order (kept by SpecPair)

vars == <<types, pc, archetype, ret, last, registered, wrote, hist, order>>

\* ------------------------------------------------------------ TypeInfo
\* TypeInfo::of::<T>(): the descriptor of component type T, here its identity.
TypeInfo_of(T) == T

\* Ord for TypeInfo: descriptors are totally ordered by type identity.
TypeInfo_le(x, y) == x <= y

\* ---------------------------------------------------------- BinaryHeap
Swap(h, i, j) == [h EXCEPT ![i] = h[j], ![j] = h[i]]

RECURSIVE sift_up(_, _)
sift_up(h, pos) ==
    IF pos = 1 THEN h
    ELSE LET parent == pos \div 2 IN
         IF TypeInfo_le(h[pos], h[parent]) THEN h
         ELSE sift_up(Swap(h, pos, parent), parent)

\* BinaryHeap::push: append, then sift the new element up (max-heap).
push(h, x) == sift_up(Append(h, x), Len(h) + 1)

RECURSIVE sift_down_range(_, _, _)
sift_down_range(h, pos, end) ==
    LET left == 2 * pos
        right == 2 * pos + 1
    IN  IF right <= end
        THEN LET child == IF TypeInfo_le(h[left], h[right]) THEN right ELSE left IN
             IF TypeInfo_le(h[child], h[pos]) THEN h
             ELSE sift_down_range(Swap(h, pos, child), child, end)
        ELSE IF left = end /\ ~TypeInfo_le(h[left], h[pos])
             THEN Swap(h, pos, left)
             ELSE h

RECURSIVE sort_from(_, _)
sort_from(h, end) ==
    IF end <= 1 THEN h
    ELSE sort_from(sift_down_range(Swap(h, 1, end), 1, end - 1), end - 1)

\* BinaryHeap::into_sorted_vec: heap sort in place, ascending.
into_sorted_vec(h) == sort_from(h, Len(h))

\* BinaryHeap::into_vec: the underlying vector, in heap order.
into_vec(h) == h

\* ----------------------------------------------------------- Archetype
NoArchetype == [types |-> <<>>, len |-> 0, cap |-> 0, data |-> <<>>]

\* Archetype::new: one empty column per descriptor of the sequence.
Archetype_new(tys) ==
    [types |-> tys, len |-> 0, cap |-> 0, data |-> [c \in 1..Len(tys) |-> <<>>]]

\* Archetype::get::<T>(): the column of T, 0 when T is not in the archetype.
Archetype_get(a, T) ==
    IF \E c \in 1..Len(a.types) : a.types[c] = TypeInfo_of(T)
    THEN CHOOSE c \in 1..Len(a.types) :
            /\ a.types[c] = TypeInfo_of(T)
            /\ \A d \in 1..(c - 1) : a.types[d] # TypeInfo_of(T)
    ELSE 0

Archetype_capacity(a) == a.cap

Archetype_len(a) == a.len

Max(x, y) == IF x >= y THEN x ELSE y

\* The capacities Archetype::reserve may leave: unchanged when there is room,
\* otherwise exact or doubling growth (the growth policy is left open).
GrowthChoices(a, n) ==
    IF a.cap >= a.len + n THEN {a.cap}
    ELSE {a.len + n, Max(2 * a.cap, a.len + n)}

Extend(col, cap) == [i \in 1..cap |-> IF i <= Len(col) THEN col[i] ELSE Uninit]

\* Archetype::reserve(n), grown to newcap: every column grows in lock-step
\* and keeps what its slots held.
Archetype_reserve(a, newcap) ==
    [a EXCEPT !.cap = newcap,
              !.data = [c \in 1..Len(a.data) |-> Extend(a.data[c], newcap)]]

\* Archetype::set_len(n): no validation.
Archetype_set_len(a, n) == [a EXCEPT !.len = n]

\* Reading slot i of T's column: a slot nobody wrote holds any bit pattern.
ReadSet(a, T, i) ==
    LET c == Archetype_get(a, T) IN
    IF c = 0 \/ i > Len(a.data[c]) THEN {}
    ELSE IF a.data[c][i] = Uninit THEN Vals ELSE {a.data[c][i]}

\* ----------------------------------------------------------- call log
NoRet == [kind |-> "unit", b |-> 0, T |-> 0, col |-> 0, len |-> 0]
Call(op, b, grew) == [op |-> op, b |-> b, grew |-> grew]

EmptyBag == [T \in TypeIds |-> 0]
NothingWritten == [T \in TypeIds |-> [i \in SlotIds |-> Uninit]]

Init ==
    /\ types = [b \in Batches |-> <<>>]
    /\ pc = [b \in Batches |-> "type"]
    /\ archetype = [b \in Batches |-> NoArchetype]
    /\ ret = NoRet
    /\ last = Call("new", 0, FALSE)
    /\ registered = [b \in Batches |-> EmptyBag]
    /\ wrote = [b \in Batches |-> NothingWritten]
    /\ hist = [b \in Batches |-> "type"]
    /\ order = [b \in Batches |-> <<>>]

\* ------------------------------------------------------ ColumnBatchType
\* ColumnBatchType::add::<T>()
add(b, T) ==
    /\ pc[b] = "type"
    /\ Len(types[b]) < MaxAdds
    /\ types' = [types EXCEPT ![b] = push(types[b], TypeInfo_of(T))]
    /\ registered' = [registered EXCEPT ![b][T] = @ + 1]
    /\ ret' = NoRet
    /\ last' = Call("add", b, FALSE)
    /\ UNCHANGED <<pc, archetype, wrote, hist>>

RECURSIVE Dedup(_)
Dedup(s) ==
    IF Len(s) <= 1 THEN s
    ELSE IF s[1] = s[2] THEN Dedup(Tail(s))
         ELSE <<s[1]>> \o Dedup(Tail(s))

\* Faulty variant: the heap's vector is handed over unsorted (into_vec).
SortedTypes_unsorted(h) == into_vec(h)

\* Faulty variant: repeated descriptors are collapsed after sorting.
SortedTypes_dedup(h) == Dedup(into_sorted_vec(h))

\* The sequence into_batch hands to Archetype::new.
SortedTypes(h) == into_sorted_vec(h)

\* Faulty variant: into_batch looks the type sequence up and hands back the archetype
\* another batch already holds for it.
into_batch_shared(b) ==
    /\ pc[b] = "type"
    /\ archetype' = [archetype EXCEPT ![b] =
          IF \E o \in Batches : pc[o] = "batch" /\ archetype[o].types = SortedTypes(types[b])
          THEN archetype[CHOOSE o \in Batches :
                            pc[o] = "batch" /\ archetype[o].types = SortedTypes(types[b])]
          ELSE Archetype_new(SortedTypes(types[b]))]
    /\ types' = [types EXCEPT ![b] = <<>>]
    /\ pc' = [pc EXCEPT ![b] = "batch"]
    /\ hist' = [hist EXCEPT ![b] = "fresh"]
    /\ ret' = NoRet
    /\ last' = Call("into_batch", b, FALSE)
    /\ UNCHANGED <<registered, wrote>>

\* ColumnBatchType::into_batch(self)
into_batch(b) ==
    /\ pc[b] = "type"
    /\ archetype' = [archetype EXCEPT ![b] = Archetype_new(SortedTypes(types[b]))]
    /\ types' = [types EXCEPT ![b] = <<>>]
    /\ pc' = [pc EXCEPT ![b] = "batch"]
    /\ hist' = [hist EXCEPT ![b] = "fresh"]
    /\ ret' = NoRet
    /\ last' = Call("into_batch", b, FALSE)
    /\ UNCHANGED <<registered, wrote>>

\* ColumnBatch::new(ty)
new(b) == into_batch(b)

\* ---------------------------------------------------------- ColumnBatch
\* Faulty variant: reserve also commits the reserved rows.
reserve_commits(b, n) ==
    /\ pc[b] = "batch"
    /\ archetype[b].len + n <= MaxCap
    /\ \E newcap \in GrowthChoices(archetype[b], n) :
          /\ newcap <= MaxCap
          /\ archetype' = [archetype EXCEPT ![b] =
                Archetype_set_len(Archetype_reserve(@, newcap), @.len + n)]
          /\ last' = Call("reserve", b, newcap > archetype[b].cap)
    /\ hist' = [hist EXCEPT ![b] = IF @ = "fresh" THEN "reserved" ELSE "other"]
    /\ ret' = NoRet
    /\ UNCHANGED <<types, pc, registered, wrote>>

\* Faulty variant: reserve allocates new columns and copies nothing over.
reserve_realloc(b, n) ==
    /\ pc[b] = "batch"
    /\ archetype[b].len + n <= MaxCap
    /\ \E newcap \in GrowthChoices(archetype[b], n) :
          /\ newcap <= MaxCap
          /\ archetype' = [archetype EXCEPT ![b] =
                Archetype_set_len(Archetype_reserve(Archetype_new(@.types), newcap), @.len)]
          /\ last' = Call("reserve", b, newcap > archetype[b].cap)
    /\ hist' = [hist EXCEPT ![b] = IF @ = "fresh" THEN "reserved" ELSE "other"]
    /\ ret' = NoRet
    /\ UNCHANGED <<types, pc, registered, wrote>>

\* ColumnBatch::reserve(n)
reserve(b, n) ==
    /\ pc[b] = "batch"
    /\ archetype[b].len + n <= MaxCap
    /\ \E newcap \in GrowthChoices(archetype[b], n) :
          /\ newcap <= MaxCap
          /\ archetype' = [archetype EXCEPT ![b] = Archetype_reserve(@, newcap)]
          /\ last' = Call("reserve", b, newcap > archetype[b].cap)
    /\ hist' = [hist EXCEPT ![b] = IF @ = "fresh" THEN "reserved" ELSE "other"]
    /\ ret' = NoRet
    /\ UNCHANGED <<types, pc, registered, wrote>>

\* Faulty variant: an archetype without capacity answers None.
storage_for_value_empty(a, b, T) ==
    LET base == Archetype_get(a, T) IN
    IF base = 0 \/ Archetype_capacity(a) = 0
    THEN [kind |-> "none", b |-> b, T |-> T, col |-> 0, len |-> 0]
    ELSE [kind |-> "some", b |-> b, T |-> T, col |-> base,
          len |-> Archetype_capacity(a)]

\* Faulty variant: the slice is as long as the length, not the capacity.
storage_for_value_len(a, b, T) ==
    LET base == Archetype_get(a, T) IN
    IF base = 0
    THEN [kind |-> "none", b |-> b, T |-> T, col |-> 0, len |-> 0]
    ELSE [kind |-> "some", b |-> b, T |-> T, col |-> base,
          len |-> Archetype_len(a)]

\* Faulty variant: the slice starts at the archetype's first column, whatever T is.
storage_for_value_first(a, b, T) ==
    LET base == Archetype_get(a, T) IN
    IF base = 0
    THEN [kind |-> "none", b |-> b, T |-> T, col |-> 0, len |-> 0]
    ELSE [kind |-> "some", b |-> b, T |-> T, col |-> 1,
          len |-> Archetype_capacity(a)]

\* The value of ColumnBatch::storage_for::<T>(): None, or a slice over T's
\* column that is as long as the archetype's capacity.
storage_for_value(a, b, T) ==
    LET base == Archetype_get(a, T) IN
    IF base = 0
    THEN [kind |-> "none", b |-> b, T |-> T, col |-> 0, len |-> 0]
    ELSE [kind |-> "some", b |-> b, T |-> T, col |-> base,
          len |-> Archetype_capacity(a)]

\* ColumnBatch::storage_for::<T>()
storage_for(b, T) ==
    /\ pc[b] = "batch"
    /\ ret' = storage_for_value(archetype[b], b, T)
    /\ last' = Call("storage_for", b, FALSE)
    /\ UNCHANGED <<types, pc, archetype, registered, wrote, hist>>

\* The caller stores a value in slot i of the slice the last storage_for
\* returned; an index outside the slice panics and stores nothing.
write(b, i) ==
    /\ ret.kind = "some"
    /\ ret.b = b
    /\ i \in 1..ret.len
    /\ i <= Len(archetype[b].data[ret.col])
    /\ archetype' = [archetype EXCEPT ![b].data[ret.col][i] = Val(ret.T, i)]
    /\ wrote' = [wrote EXCEPT ![b][ret.T][i] = Val(ret.T, i)]
    /\ UNCHANGED <<types, pc, ret, last, registered, hist>>

\* The safety requirement of set_len(n): for every registered T the first n
\* elements of storage_for::<T>() have been written.
AllWritten(b, n) ==
    /\ n <= MaxCap
    /\ \A T \in TypeIds : registered[b][T] > 0 =>
          \A i \in 1..n : wrote[b][T][i] # Uninit

\* Where set_len(n) takes the history of b: a first commit of written rows,
\* a later set_len below the committed length, or anything else.
AfterSetLen(b, n) ==
    IF hist[b] = "reserved" /\ AllWritten(b, n) THEN "committed"
    ELSE IF hist[b] = "committed" /\ n < archetype[b].len THEN "shrunk"
    ELSE "other"

\* Faulty variant: set_len commits one row more than asked.
set_len_more(b, n) ==
    /\ pc[b] = "batch"
    /\ archetype' = [archetype EXCEPT ![b] = Archetype_set_len(@, n + 1)]
    /\ hist' = [hist EXCEPT ![b] = AfterSetLen(b, n)]
    /\ ret' = NoRet
    /\ last' = Call("set_len", b, FALSE)
    /\ UNCHANGED <<types, pc, registered, wrote>>

\* Faulty variant: set_len commits one row less than asked.
set_len_less(b, n) ==
    /\ pc[b] = "batch"
    /\ archetype' = [archetype EXCEPT ![b] =
                       Archetype_set_len(@, IF n = 0 THEN 0 ELSE n - 1)]
    /\ hist' = [hist EXCEPT ![b] = AfterSetLen(b, n)]
    /\ ret' = NoRet
    /\ last' = Call("set_len", b, FALSE)
    /\ UNCHANGED <<types, pc, registered, wrote>>

\* ColumnBatch::set_len(n)
set_len(b, n) ==
    /\ pc[b] = "batch"
    /\ archetype' = [archetype EXCEPT ![b] = Archetype_set_len(@, n)]
    /\ hist' = [hist EXCEPT ![b] = AfterSetLen(b, n)]
    /\ ret' = NoRet
    /\ last' = Call("set_len", b, FALSE)
    /\ UNCHANGED <<types, pc, registered, wrote>>

\* ------------------------------------------------------- specifications
\* One ColumnBatchType, built into one ColumnBatch, and the calls on it.
Next ==
    \E b \in {1} :
        \/ \E T \in TypeIds : add(b, T) /\ UNCHANGED order
        \/ into_batch(b) /\ UNCHANGED order
        \/ new(b) /\ UNCHANGED order
        \/ \E n \in 0..MaxCap : reserve(b, n) /\ UNCHANGED order
        \/ \E T \in TypeIds : storage_for(b, T) /\ UNCHANGED order
        \/ \E n \in 0..MaxLen : set_len(b, n) /\ UNCHANGED order

Spec == Init /\ [][Next]_vars

\* Two ColumnBatchTypes filled side by side, each built into its own batch;
\* order remembers the add calls of each.
NextPair ==
    \E b \in Batches :
        \/ \E T \in TypeIds : add(b, T) /\ order' = [order EXCEPT ![b] = Append(@, T)]
        \/ into_batch(b) /\ UNCHANGED order
        \/ new(b) /\ UNCHANGED order

SpecPair == Init /\ [][NextPair]_vars

RECURSIVE PushAll(_, _)
PushAll(h, s) == IF s = <<>> THEN h ELSE PushAll(push(h, TypeInfo_of(Head(s))), Tail(s))

RECURSIVE BagOf(_)
BagOf(s) == IF s = <<>> THEN EmptyBag
            ELSE [BagOf(Tail(s)) EXCEPT ![Head(s)] = @ + 1]

AddSeqs == UNION {[1..k -> TypeIds] : k \in 0..MaxAdds}
DataSeqs == UNION {[1..k -> TypeIds] : k \in 0..MaxCols}

\* A ColumnBatchType after the add calls s.
InitData ==
    \E s \in DataSeqs :
        /\ types = [b \in Batches |-> IF b = 1 THEN PushAll(<<>>, s) ELSE <<>>]
        /\ pc = [b \in Batches |-> "type"]
        /\ archetype = [b \in Batches |-> NoArchetype]
        /\ ret = NoRet
        /\ last = Call("add", 0, FALSE)
        /\ registered = [b \in Batches |-> IF b = 1 THEN BagOf(s) ELSE EmptyBag]
        /\ wrote = [b \in Batches |-> NothingWritten]
        /\ hist = [b \in Batches |-> "type"]
        /\ order = [b \in Batches |-> <<>>]

\* The batch built from it, the calls on it, and the caller's stores through
\* the slices storage_for hands out.
NextData ==
    \E b \in {1} :
        \/ into_batch(b) /\ UNCHANGED order
        \/ new(b) /\ UNCHANGED order
        \/ \E n \in 0..MaxCap : reserve(b, n) /\ UNCHANGED order
        \/ \E T \in TypeIds : storage_for(b, T) /\ UNCHANGED order
        \/ \E i \in SlotIds : write(b, i) /\ UNCHANGED order
        \/ \E n \in 0..MaxLen : set_len(b, n) /\ UNCHANGED order

SpecData == InitData /\ [][NextData]_vars

\* Two ColumnBatchTypes on which the same add calls were made.
InitTwo ==
    \E s \in AddSeqs :
        /\ types = [b \in Batches |-> PushAll(<<>>, s)]
        /\ pc = [b \in Batches |-> "type"]
        /\ archetype = [b \in Batches |-> NoArchetype]
        /\ ret = NoRet
        /\ last = Call("add", 0, FALSE)
        /\ registered = [b \in Batches |-> BagOf(s)]
        /\ wrote = [b \in Batches |-> NothingWritten]
        /\ hist = [b \in Batches |-> "type"]
        /\ order = [b \in Batches |-> <<>>]

NextTwo ==
    \E b \in Batches :
        \/ into_batch(b) /\ UNCHANGED order
        \/ new(b) /\ UNCHANGED order
        \/ \E n \in 0..MaxCap : reserve(b, n) /\ UNCHANGED order
        \/ \E n \in 0..MaxLen : set_len(b, n) /\ UNCHANGED order

SpecTwo == InitTwo /\ [][NextTwo]_vars

\* --------------------------------------------------------------- claims
Built(b) == pc[b] = "batch"
Registered(b, T) == registered[b][T] > 0
IsSorted(s) == \A i \in 1..(Len(s) - 1) : TypeInfo_le(s[i], s[i + 1])
Range(s) == {s[i] : i \in 1..Len(s)}
NoRepeat(s) == Cardinality(Range(s)) = Len(s)
Count(s, x) == Cardinality({i \in 1..Len(s) : s[i] = x})

\* The step is the call reserve(n) on b.  Every reserve step logs itself, so
\* the log is looked at first and reserve is evaluated on reserve steps only.
IsReserve(b, n) == last'.op = "reserve" /\ last'.b = b /\ reserve(b, n)

\* The step is the call set_len(n) on b.
IsSetLen(b, n) == last'.op = "set_len" /\ last'.b = b /\ set_len(b, n)

\* C1: whatever the order in which add registers a set of types, each once,
\* into_batch hands Archetype::new the same sequence, sorted ascending by
\* type identity.
C1_OrderIndependent ==
    \A b1 \in Batches, b2 \in Batches :
        ( /\ Built(b1) /\ Built(b2)
          /\ NoRepeat(order[b1]) /\ NoRepeat(order[b2])
          /\ Range(order[b1]) = Range(order[b2]) )
        => /\ archetype[b1].types = archetype[b2].types
           /\ IsSorted(archetype[b1].types)
           /\ Range(archetype[b1].types) = Range(order[b1])

C1_Witness ==
    /\ Built(1) /\ Built(2)
    /\ order[1] = <<1, 2, 3>>
    /\ order[2] = <<3, 1, 2>>
    /\ archetype[1].types = <<1, 2, 3>>

\* C2: on a ColumnBatch, storage_for::<T>() is None exactly when add::<T>()
\* was never called on its ColumnBatchType; for a registered T it is a slice.
C2_AbsentIffUnregistered ==
    /\ \A b \in Batches : Built(b) =>
          \A T \in TypeIds :
             /\ storage_for_value(archetype[b], b, T).kind = "none" <=> ~Registered(b, T)
             /\ storage_for_value(archetype[b], b, T).kind = "some" <=> Registered(b, T)
    /\ ret.kind = "none" => ~Registered(ret.b, ret.T)
    /\ ret.kind = "some" => Registered(ret.b, ret.T)

C2_Witness ==
    /\ last.op = "storage_for"
    /\ ret.kind = "none"
    /\ archetype[1].cap > 0
    /\ archetype[1].len > 0
    /\ \E T \in TypeIds : Registered(1, T) /\ storage_for_value(archetype[1], 1, T).kind = "some"

\* C3: reserve(n) called at length L leaves capacity >= L + n, and then every
\* registered type's slice is exactly as long as the capacity.
C3_ReserveThenViews ==
    [][\A b \in Batches : \A n \in 0..MaxCap :
          IsReserve(b, n) =>
             /\ archetype'[b].cap >= archetype[b].len + n
             /\ \A T \in TypeIds : Registered(b, T) =>
                   /\ storage_for_value(archetype'[b], b, T).kind = "some"
                   /\ storage_for_value(archetype'[b], b, T).len = archetype'[b].cap]_vars

C3_Witness ==
    /\ last.op = "reserve"
    /\ last.grew
    /\ archetype[1].len = 1
    /\ archetype[1].cap = 2
    /\ Registered(1, 1) /\ Registered(1, 2)

\* C4: fresh batch, reserve, the first n slots of every registered type
\* written through storage_for, set_len(n): the length is n and slot i < n of
\* every registered type reads back the value written to it.
C4_WriteCommitRead ==
    [][\A b \in Batches : \A n \in 0..MaxLen :
          (hist[b] = "reserved" /\ AllWritten(b, n) /\ IsSetLen(b, n)) =>
             /\ Archetype_len(archetype'[b]) = n
             /\ \A T \in TypeIds : Registered(b, T) =>
                   \A i \in 1..n :
                      /\ wrote[b][T][i] = Val(T, i)
                      /\ ReadSet(archetype'[b], T, i) = {Val(T, i)}]_vars

C4_Witness ==
    /\ hist[1] = "committed"
    /\ last.op = "set_len"
    /\ archetype[1].len = 2
    /\ archetype[1].types = <<1, 2>>
    /\ \A T \in {1, 2} : \A i \in 1..2 : ReadSet(archetype[1], T, i) = {Val(T, i)}

\* C5 as claimed: length <= capacity in every reachable state, whatever the
\* arguments of reserve and set_len.
C5_LenWithinCapacity ==
    \A b \in Batches : archetype[b].len <= archetype[b].cap

\* C5, amended: length <= capacity is kept by every step except a
\* set_len(n) whose n exceeds the capacity.
C5_LenWithinCapacityUnlessOvercommit ==
    [][\A b \in Batches :
          ( /\ archetype[b].len <= archetype[b].cap
            /\ ~(\E n \in 0..MaxLen : n > archetype[b].cap /\ IsSetLen(b, n)) )
          => archetype'[b].len <= archetype'[b].cap]_vars

C5_Witness ==
    /\ last.op = "set_len"
    /\ archetype[1].len = 2
    /\ archetype[1].cap = 2

\* C6 as claimed: no step moves the length backward.
C6_LenNeverBackward ==
    [][\A b \in Batches : archetype'[b].len >= archetype[b].len]_vars

\* C6, amended: the only step that moves the length backward is a set_len(n)
\* with n below the current length, and it leaves the length at n.
C6_BackwardOnlyBySetLen ==
    [][\A b \in Batches :
          archetype'[b].len < archetype[b].len =>
             \E n \in 0..MaxLen :
                /\ n < archetype[b].len
                /\ IsSetLen(b, n)
                /\ archetype'[b].len = n]_vars

C6_Witness ==
    /\ last.op = "set_len"
    /\ hist[1] = "shrunk"
    /\ archetype[1].len = 0
    /\ archetype[1].cap = 2
    /\ \E T \in TypeIds : Registered(1, T) /\ wrote[1][T][1] # Uninit /\ wrote[1][T][2] # Uninit

\* C7: reserve and storage_for (a None answer included) leave the length
\* alone, so a batch that was never committed has the length it was built with.
C7_OnlySetLenChangesLen ==
    [][\A b \in Batches :
          \/ /\ archetype'[b].len = archetype[b].len
             /\ (hist'[b] \in {"fresh", "reserved"} => archetype'[b].len = 0)
          \/ ~( \/ \E n \in 0..MaxCap : reserve(b, n)
                \/ \E T \in TypeIds : storage_for(b, T) )]_vars

C7_Witness ==
    /\ last.op = "storage_for"
    /\ ret.kind = "none"
    /\ hist[1] = "reserved"
    /\ archetype[1].len = 0
    /\ archetype[1].cap = 2
    /\ \E T \in TypeIds : Registered(1, T)

C10_MultisetKept ==
    \A b \in Batches : Built(b) =>
        LET s == archetype[b].types IN
        /\ Len(s) = Len(order[b])
        /\ IsSorted(s)
        /\ \A T \in TypeIds : Count(s, TypeInfo_of(T)) = Count(order[b], T)
        /\ \A i \in 1..Len(s), j \in 1..Len(s) :
              (i < j /\ s[i] = s[j]) => \A k \in i..j : s[k] = s[i]

C10_Witness ==
    /\ Built(1)
    /\ order[1] = <<2, 1, 2>>
    /\ archetype[1].types = <<1, 2, 2>>
====
